---- MODULE Spec2Model ----
(***************************************************************************)
(* Session-multiplexed protocol gateway of mcp-searchapi                   *)
(* (src/src/index.ts, McpServerApp.run).                                   *)
(*                                                                         *)
(* The gateway keeps one table, transports, from session id to the         *)
(* StreamableHTTPServerTransport ("channel") of that session.  Every       *)
(* request handler is an async function on one event loop: a handler runs  *)
(* without interruption up to its next await, so each action below is one  *)
(* such run.  The channel is a library object; what it does between the    *)
(* gateway's call of handleRequest and the completion of that call is the  *)
(* environment, modelled by the Channel* actions, which invoke the two     *)
(* callbacks the gateway installs (onsessioninitialized, onclose).         *)
(***************************************************************************)
EXTENDS Integers, Sequences, FiniteSets, TLC

\* ---------------------------------------------------------------- bounds
MaxReqs == 2                \* HTTP requests per behaviour
MaxChans == 2               \* channels constructed per behaviour
MaxProducts == 2            \* product entries in one upstream response

\* ------------------------------------------------------- values of the code
Undefined == "undefined"     \* JS undefined (absent header, unset sessionId)
EmptyHeader == ""            \* header present with an empty value
NoTransport == 0             \* request holds no channel
NoStatus == 0                \* no response written by the gateway or channel
NoCode == 0                  \* response body carries no JSON-RPC error code

\* Names every plain JS object inherits from Object.prototype; the table
\* `transports` is created by the object literal {} and so answers for them.
ProtoKeys == {"constructor"}

\* randomUUID(): the n-th identifier drawn.  Version-4 UUIDs are modelled by
\* their contract: a draw never repeats an earlier draw.
randomUUID(n) == "uuid-" \o ToString(n)

\* A generator that hands out one identifier drawn once.
sessionIdGeneratorFixed(n) == randomUUID(1)

sessionIdGenerator(n) == randomUUID(n + 1)

\* An identifier of the same shape that the server never issues.
ForeignUuid == randomUUID(0)

\* Values the mcp-session-id header of an inbound request can take when n
\* identifiers have been issued: absent, empty, a name from Object.prototype,
\* an identifier the server never issued, or one it did issue.
Headers(n) ==
    {Undefined, EmptyHeader, ForeignUuid} \cup ProtoKeys
        \cup {randomUUID(k) : k \in 1..n}

\* Request bodies, by what isInitializeRequest and the channel make of them.
Bodies == {"initialize", "tools/call"}

isInitializeRequest(body) == body = "initialize"

\* JS truthiness of the header value: undefined and '' are falsy.
Truthy(h) == h # Undefined /\ h # EmptyHeader

\* Values of the environment variable SEARCHAPI_API_KEY: unset, set to the
\* empty string, or set to a key.
EnvApiKeys == {Undefined, EmptyHeader, "sk-key"}

\* config.searchApi.apiKey: process.env.SEARCHAPI_API_KEY || ''
ConfigApiKey(env) == IF Truthy(env) THEN env ELSE ""

\* A constructor that tests the key against undefined only.
ApiKeyMissingUndefinedOnly(k) == k = Undefined

\* The constructor's test: !config.searchApi.apiKey
ApiKeyMissing(k) == ~Truthy(k)

\* Body of a response that carries none of the fields below.
NoBody == [status |-> "-", service |-> "-"]

\* Body of the health response.
HealthBody == [status |-> "ok", service |-> "mcp-searchapi-server"]

VARIABLES
    transports,   \* own properties of the table: session id -> channel
    chans,        \* channels constructed so far, in order of construction
    reqs,         \* the requests and where each handler stands
    nArrived,     \* requests that have arrived
    nServers,     \* McpServer instances (tool handlers) created
    issued,       \* identifiers drawn from randomUUID so far
    lastHandler,  \* history: session id -> channel that handled its last request
    removedIds,   \* history: ids whose channel's close notification was processed
    lastResponse, \* history: the request whose handler ended last, as it ended
    repeatedClose, \* history: onclose has run for a session it had removed before
    proc,         \* the process: its environment and how far startup has come
    invocation    \* one call of the google-shopping-search tool handler

vars == <<transports, chans, reqs, nArrived, nServers, issued, lastHandler,
          removedIds, lastResponse, repeatedClose, proc, invocation>>

\* transports[sessionId] on a plain object: an own entry, else an inherited
\* member of Object.prototype, else undefined.
Lookup(t, h) ==
    IF h \in DOMAIN t THEN [kind |-> "transport", c |-> t[h]]
    ELSE IF h \in ProtoKeys THEN [kind |-> "inherited", c |-> NoTransport]
    ELSE [kind |-> "undefined", c |-> NoTransport]

LookupTruthy(t, h) == Lookup(t, h).kind # "undefined"

\* Classify with the initialization test taken first.
ClassifyInitFirst(h, body, t) ==
    IF isInitializeRequest(body) THEN "create"
    ELSE IF Truthy(h) /\ LookupTruthy(t, h) THEN "resume"
    ELSE "reject"

\* The three-way branch of app.post('/mcp').
Classify(h, body, t) ==
    IF Truthy(h) /\ LookupTruthy(t, h) THEN "resume"
    ELSE IF ~Truthy(h) /\ isInitializeRequest(body) THEN "create"
    ELSE "reject"

\* The guard of handleSessionRequest.
SessionRequestInvalid(h, t) == ~Truthy(h) \/ ~LookupTruthy(t, h)

\* onsessioninitialized that stores nothing.
OnSessionInitializedNoStore(t, s, c) == t

\* onsessioninitialized reading the handler's own sessionId (the request
\* header, undefined on the create path) instead of its parameter.
OnSessionInitializedOuterId(t, s, c) ==
    [k \in DOMAIN t \cup {Undefined} |-> IF k = Undefined THEN c ELSE t[k]]

\* onsessioninitialized that registers the channel only when the table is
\* empty.
OnSessionInitializedFirstOnly(t, s, c) ==
    IF DOMAIN t = {} THEN [k \in {s} |-> c] ELSE t

\* onsessioninitialized closing over a variable shared by all requests: it
\* stores the channel constructed last, not the one that confirmed.
OnSessionInitializedSharedVar(t, s, c) ==
    [k \in DOMAIN t \cup {s} |-> IF k = s THEN Len(chans) ELSE t[k]]

\* onsessioninitialized: transports[sessionId] = transport
OnSessionInitialized(t, s, c) ==
    [k \in DOMAIN t \cup {s} |-> IF k = s THEN c ELSE t[k]]

\* onclose that empties the table.
OnCloseRegistryClearAll(t, sid) == IF Truthy(sid) THEN << >> ELSE t

\* onclose that deletes nothing.
OnCloseRegistryKeep(t, sid) == t

\* onclose with its guard inverted.
OnCloseRegistryInverted(t, sid) ==
    IF ~Truthy(sid) THEN [k \in DOMAIN t \ {sid} |-> t[k]] ELSE t

\* onclose that keeps the entry while a handler still holds the channel.
OnCloseRegistryUnlessBusy(t, sid) ==
    IF Truthy(sid)
       /\ ~\E r \in 1..MaxReqs :
             /\ reqs[r].pc = "inChannel"
             /\ sid \in DOMAIN t
             /\ reqs[r].transport = t[sid]
    THEN [k \in DOMAIN t \ {sid} |-> t[k]]
    ELSE t

\* transport.onclose: if (transport.sessionId) delete transports[sessionId]
OnCloseRegistry(t, sid) ==
    IF Truthy(sid) THEN [k \in DOMAIN t \ {sid} |-> t[k]] ELSE t

\* No tool call is under way.
NoInvocation == [pc |-> "none"]

NewRequest ==
    [id |-> 0, method |-> "-", header |-> Undefined, body |-> "-", pc |-> "new",
     branch |-> "-", transport |-> NoTransport, status |-> NoStatus,
     code |-> NoCode, headersSent |-> FALSE, resBody |-> NoBody,
     channelStatus |-> NoStatus, writes |-> 0, logged |-> FALSE,
     tool |-> "-"]

\* A handler that has ended holds no request, response or channel any more.
Retired == [NewRequest EXCEPT !.pc = "done"]

\* new StreamableHTTPServerTransport({...}); transport.onclose = ...
NewTransport(r) ==
    [sessionId |-> Undefined, createdBy |-> r, pendingClose |-> FALSE]

Init ==
    /\ transports = << >>
    /\ chans = << >>
    /\ reqs = [r \in 1..MaxReqs |-> NewRequest]
    /\ nArrived = 0
    /\ nServers = 0
    /\ issued = 0
    /\ lastHandler = << >>
    /\ removedIds = {}
    /\ lastResponse = NewRequest
    /\ repeatedClose = FALSE
    /\ proc \in {[env |-> e, phase |-> "starting"] : e \in EnvApiKeys}
    /\ invocation = NoInvocation

\* Put(f, k, v): f with k mapped to v (history bookkeeping only).
Put(f, k, v) == [x \in DOMAIN f \cup {k} |-> IF x = k THEN v ELSE f[x]]

\* A catch block that writes the 500 body without looking at res.headersSent.
CatchPostAlways(q) ==
    [q EXCEPT !.pc = "done", !.status = 500, !.code = -32603,
              !.headersSent = TRUE, !.writes = @ + 1, !.logged = TRUE]

\* The catch block of app.post('/mcp'): the 500 body is written only when no
\* response has begun.
CatchPost(q) ==
    IF ~q.headersSent
    THEN [q EXCEPT !.pc = "done", !.status = 500, !.code = -32603,
                   !.headersSent = TRUE, !.writes = @ + 1, !.logged = TRUE]
    ELSE [q EXCEPT !.pc = "done", !.logged = TRUE]

\* The else branch of app.post('/mcp'): res.status(400).json({... -32000 ...})
RejectPost(q) ==
    [q EXCEPT !.pc = "done", !.status = 400, !.code = -32000,
              !.headersSent = TRUE, !.writes = @ + 1]

\* res.status(400).send('Invalid or missing session ID')
RejectSessionRequest(q) ==
    [q EXCEPT !.pc = "done", !.status = 400, !.headersSent = TRUE,
              !.writes = @ + 1]

\* The promise of a handler without try/catch rejects: nothing is written.
Escape(q) == [q EXCEPT !.pc = "escaped"]

Arrived(r, m, h, b) ==
    [NewRequest EXCEPT !.id = r, !.method = m, !.header = h, !.body = b]

\* A handler that is past the branch on sessionId never reads it again: the
\* record of a suspended handler keeps the channel it holds, and of the header
\* only the session id it named, if any.
Suspended(q, pc, c) ==
    [q EXCEPT !.pc = pc, !.transport = c,
              !.header = IF Truthy(@) THEN @ ELSE Undefined]

\* The channel begins its response to q with status st.
ChannelWrites(q, st) ==
    [q EXCEPT !.status = st, !.channelStatus = st, !.headersSent = TRUE,
              !.writes = @ + 1]

\* The handler of request r ends as q.
Ends(r, q) ==
    /\ reqs' = [reqs EXCEPT ![r] = Retired]
    /\ lastResponse' = q

\* POST /mcp, first branch: the handler takes transports[sessionId] and calls
\* transport.handleRequest on it in the same run.  An inherited member of
\* Object.prototype is not a transport: the call raises a TypeError, which the
\* handler's catch turns into the 500 response.
PostResume(r, h, b) ==
    LET lk == Lookup(transports, h)
        q  == [Arrived(r, "POST", h, b) EXCEPT !.branch = "resume"]
    IN  /\ Classify(h, b, transports) = "resume"
        /\ IF lk.kind = "transport"
           THEN /\ reqs' = [reqs EXCEPT ![r] =
                              Suspended(q, "inChannel", lk.c)]
                /\ lastHandler' = Put(lastHandler, h, lk.c)
                /\ UNCHANGED lastResponse
           ELSE /\ Ends(r, CatchPost(q))
                /\ UNCHANGED lastHandler
        /\ UNCHANGED <<transports, chans, nServers, issued, removedIds,
                       repeatedClose, proc, invocation>>

\* POST /mcp, second branch: construct the channel, install onclose, create
\* the McpServer and await server.connect(transport).
PostCreate(r, h, b) ==
    /\ Classify(h, b, transports) = "create"
    /\ Len(chans) < MaxChans
    /\ chans' = Append(chans, NewTransport(r))
    /\ nServers' = nServers + 1
    /\ reqs' = [reqs EXCEPT ![r] =
                  Suspended([Arrived(r, "POST", h, b) EXCEPT !.branch = "create"],
                            "connecting", Len(chans) + 1)]
    /\ UNCHANGED <<transports, issued, lastHandler, removedIds, lastResponse,
                   repeatedClose, proc, invocation>>

\* POST /mcp, third branch.
PostReject(r, h, b) ==
    /\ Classify(h, b, transports) = "reject"
    /\ Ends(r, RejectPost([Arrived(r, "POST", h, b) EXCEPT !.branch = "reject"]))
    /\ UNCHANGED <<transports, chans, nServers, issued, lastHandler,
                   removedIds, repeatedClose, proc, invocation>>

\* The entry point: new McpServerApp() and, when the constructor returns,
\* server.run(), which reaches app.listen without an await.  The constructor's
\* throw is outside the .catch of run(): the process ends on it.
Startup ==
    /\ proc.phase = "starting"
    /\ proc' = [proc EXCEPT !.phase =
                   IF ApiKeyMissing(ConfigApiKey(proc.env))
                   THEN "exited" ELSE "listening"]
    /\ UNCHANGED <<transports, chans, reqs, nArrived, nServers, issued,
                   lastHandler, removedIds, lastResponse, repeatedClose,
                   invocation>>

\* A health handler that reports on the registry: 503 while it is empty.
HealthResponseBySessions(q) ==
    IF DOMAIN transports = {}
    THEN [q EXCEPT !.pc = "done", !.status = 503,
                   !.resBody = [status |-> "idle",
                                service |-> "mcp-searchapi-server"],
                   !.headersSent = TRUE, !.writes = @ + 1]
    ELSE [q EXCEPT !.pc = "done", !.status = 200, !.resBody = HealthBody,
                   !.headersSent = TRUE, !.writes = @ + 1]

\* res.json({status: 'ok', service: 'mcp-searchapi-server'})
HealthResponse(q) ==
    [q EXCEPT !.pc = "done", !.status = 200, !.resBody = HealthBody,
              !.headersSent = TRUE, !.writes = @ + 1]

\* app.get('/health', ...): the handler reads neither headers nor body and
\* ends in the run it starts in.  A probe holds no handler open and is not
\* counted among the MaxReqs requests.
GetHealth ==
    /\ proc.phase = "listening"
    /\ lastResponse' =
          HealthResponse(Arrived(0, "GET /health", Undefined, "-"))
    /\ UNCHANGED <<transports, chans, reqs, nArrived, nServers, issued,
                   lastHandler, removedIds, repeatedClose, proc, invocation>>

\* app.post('/mcp', ...) up to its first await.
PostMcp ==
    /\ proc.phase = "listening"
    /\ nArrived < MaxReqs
    /\ nArrived' = nArrived + 1
    /\ \E h \in Headers(issued), b \in Bodies :
          \/ PostResume(nArrived + 1, h, b)
          \/ PostCreate(nArrived + 1, h, b)
          \/ PostReject(nArrived + 1, h, b)

\* handleSessionRequest (GET /mcp and DELETE /mcp) up to its await.  It has no
\* try/catch: a TypeError from calling handleRequest on an inherited member
\* rejects the handler's promise with no response written.
handleSessionRequest(r, m, h) ==
    LET lk == Lookup(transports, h)
        q  == Arrived(r, m, h, "-")
    IN  /\ IF SessionRequestInvalid(h, transports)
           THEN /\ Ends(r, RejectSessionRequest([q EXCEPT !.branch = "reject"]))
                /\ UNCHANGED lastHandler
           ELSE IF lk.kind = "transport"
           THEN /\ reqs' = [reqs EXCEPT ![r] =
                      Suspended([q EXCEPT !.branch = "forward"], "inChannel",
                                lk.c)]
                /\ lastHandler' = Put(lastHandler, h, lk.c)
                /\ UNCHANGED lastResponse
           ELSE /\ Ends(r, Escape([q EXCEPT !.branch = "forward"]))
                /\ UNCHANGED lastHandler
        /\ UNCHANGED <<transports, chans, nServers, issued, removedIds,
                       repeatedClose, proc, invocation>>

GetMcp ==
    /\ proc.phase = "listening"
    /\ nArrived < MaxReqs
    /\ nArrived' = nArrived + 1
    /\ \E h \in Headers(issued) : handleSessionRequest(nArrived + 1, "GET", h)

DeleteMcp ==
    /\ proc.phase = "listening"
    /\ nArrived < MaxReqs
    /\ nArrived' = nArrived + 1
    /\ \E h \in Headers(issued) : handleSessionRequest(nArrived + 1, "DELETE", h)

\* await server.connect(transport) resolves; the handler goes on to
\* transport.handleRequest(req, res, req.body).
ConnectResolved(r) ==
    /\ reqs[r].pc = "connecting"
    /\ reqs' = [reqs EXCEPT ![r].pc = "inChannel"]
    /\ UNCHANGED <<transports, chans, nArrived, nServers, issued, lastHandler,
                   removedIds, lastResponse, repeatedClose, proc, invocation>>

\* server.connect(transport) rejects; the catch block runs.
ConnectThrows(r) ==
    /\ reqs[r].pc = "connecting"
    /\ Ends(r, CatchPost(reqs[r]))
    /\ UNCHANGED <<transports, chans, nArrived, nServers, issued, lastHandler,
                   removedIds, repeatedClose, proc, invocation>>

\* The channel, handling an initialization frame, draws its session id from
\* sessionIdGenerator and calls onsessioninitialized with it.
ChannelConfirm(r) ==
    LET c == reqs[r].transport
        s == sessionIdGenerator(issued)
    IN  /\ reqs[r].pc = "inChannel"
        /\ reqs[r].method = "POST"
        /\ isInitializeRequest(reqs[r].body)
        /\ chans[c].sessionId = Undefined
        /\ issued' = issued + 1
        /\ chans' = [chans EXCEPT ![c].sessionId = s]
        /\ transports' = OnSessionInitialized(transports, s, c)
        /\ lastHandler' = Put(lastHandler, s, c)
        /\ UNCHANGED <<reqs, nArrived, nServers, removedIds, lastResponse,
                       repeatedClose, proc, invocation>>

\* The channel, handling a tools/call frame of an initialized session, runs
\* the tool handler, whose catch block rethrows; the channel answers the frame
\* with the tool-level error and handleRequest resolves.
ChannelToolFails(r) ==
    LET c == reqs[r].transport
    IN  /\ reqs[r].pc = "inChannel"
        /\ reqs[r].method = "POST"
        /\ reqs[r].body = "tools/call"
        /\ chans[c].sessionId # Undefined
        /\ Ends(r, [ChannelWrites(reqs[r], 200) EXCEPT !.pc = "done",
                                                      !.tool = "failed"])
        /\ UNCHANGED <<transports, chans, nArrived, nServers, issued,
                       lastHandler, removedIds, repeatedClose, proc,
                       invocation>>

\* Statuses the channel can answer a forwarded request with: 200 once it has
\* a session, or a 400 of its own.
ChannelStatuses(c) ==
    IF chans[c].sessionId # Undefined THEN {200, 400} ELSE {400}

\* transport.handleRequest resolves: the channel has written the response.
ChannelRespond(r) ==
    LET c == reqs[r].transport
    IN  /\ reqs[r].pc = "inChannel"
        /\ \E st \in ChannelStatuses(c) :
              Ends(r, [ChannelWrites(reqs[r], st) EXCEPT !.pc = "done"])
        /\ UNCHANGED <<transports, chans, nArrived, nServers, issued,
                       lastHandler, removedIds, repeatedClose, proc, invocation>>

\* What the gateway does with a rejection of transport.handleRequest: caught
\* on the POST path, not on the GET/DELETE path.
HandleRequestRejected(q) ==
    IF q.method = "POST" THEN CatchPost(q) ELSE Escape(q)

\* transport.handleRequest rejects before the channel has begun a response.
ChannelThrows(r) ==
    /\ reqs[r].pc = "inChannel"
    /\ Ends(r, HandleRequestRejected(reqs[r]))
    /\ UNCHANGED <<transports, chans, nArrived, nServers, issued, lastHandler,
                   removedIds, repeatedClose, proc, invocation>>

\* transport.handleRequest rejects after the channel has begun a response.
ChannelThrowsLate(r) ==
    LET c == reqs[r].transport
    IN  /\ reqs[r].pc = "inChannel"
        /\ \E st \in ChannelStatuses(c) :
              Ends(r, HandleRequestRejected(ChannelWrites(reqs[r], st)))
        /\ UNCHANGED <<transports, chans, nArrived, nServers, issued,
                       lastHandler, removedIds, repeatedClose, proc, invocation>>

\* The channel, handling a forwarded DELETE, triggers its own close.
ChannelTerminate(r) ==
    LET c == reqs[r].transport
    IN  /\ reqs[r].pc = "inChannel"
        /\ reqs[r].method = "DELETE"
        /\ ~chans[c].pendingClose
        /\ chans' = [chans EXCEPT ![c].pendingClose = TRUE]
        /\ UNCHANGED <<transports, reqs, nArrived, nServers, issued,
                       lastHandler, removedIds, lastResponse, repeatedClose, proc, invocation>>

\* The channel closes for a reason of its own (client disconnect).
ChannelDisconnect(c) ==
    /\ c \in 1..Len(chans)
    /\ ~chans[c].pendingClose
    /\ chans' = [chans EXCEPT ![c].pendingClose = TRUE]
    /\ UNCHANGED <<transports, reqs, nArrived, nServers, issued, lastHandler,
                   removedIds, lastResponse, repeatedClose, proc, invocation>>

\* transport.onclose runs.
OnClose(c) ==
    /\ c \in 1..Len(chans)
    /\ chans[c].pendingClose
    /\ chans' = [chans EXCEPT ![c].pendingClose = FALSE]
    /\ repeatedClose' = (repeatedClose \/ chans[c].sessionId \in removedIds)
    /\ transports' = OnCloseRegistry(transports, chans[c].sessionId)
    /\ removedIds' = IF Truthy(chans[c].sessionId)
                     THEN removedIds \cup {chans[c].sessionId}
                     ELSE removedIds
    /\ UNCHANGED <<reqs, nArrived, nServers, issued, lastHandler,
                   lastResponse, proc, invocation>>

Next ==
    \/ Startup
    \/ GetHealth
    \/ PostMcp
    \/ GetMcp
    \/ DeleteMcp
    \/ \E r \in 1..MaxReqs : ConnectResolved(r)
    \/ \E r \in 1..MaxReqs : ConnectThrows(r)
    \/ \E r \in 1..MaxReqs : ChannelConfirm(r)
    \/ \E r \in 1..MaxReqs : ChannelToolFails(r)
    \/ \E r \in 1..MaxReqs : ChannelRespond(r)
    \/ \E r \in 1..MaxReqs : ChannelThrows(r)
    \/ \E r \in 1..MaxReqs : ChannelThrowsLate(r)
    \/ \E r \in 1..MaxReqs : ChannelTerminate(r)
    \/ \E c \in 1..MaxChans : ChannelDisconnect(c)
    \/ \E c \in 1..MaxChans : OnClose(c)

Spec == Init /\ [][Next]_vars

\* The event loop runs every callback that has been queued: a close
\* notification the channel has fired is eventually processed.
LiveSpec == Spec /\ \A c \in 1..MaxChans : WF_vars(OnClose(c))

\* ------------------------------------------- the google-shopping-search tool
\* One call of the tool handler, from its validated arguments to what it
\* returns or throws.  The handler awaits the search service once; the service
\* awaits axios.get once; what axios answers is the environment.

\* A number argument that was not supplied (JS undefined).
NoNumber == -1

\* Argument values that pass the tool's schema: each option is optional,
\* strings may be empty, the result count may be 0.
ToolArgs ==
    [location : {Undefined, "", "Tokyo"},
     country : {Undefined, "", "jp"},
     language : {Undefined, "", "ja"},
     maxResults : {NoNumber, 0, 5},
     includeMetadata : {Undefined, "false", "true"}]

Query == "wireless headphones"

\* JS truthiness of a boolean-or-undefined argument.
TruthyBool(b) == b = "true"

\* v || d on strings.
OrString(v, d) == IF Truthy(v) THEN v ELSE d

\* n || d on numbers: undefined and 0 are falsy.
OrNumber(n, d) == IF n # NoNumber /\ n # 0 THEN n ELSE d

DefaultLocation == "United States"
DefaultGl == "us"
DefaultHl == "en"
DefaultNum == 10

\* const searchOptions = {location: location || 'United States', ...}
SearchOptions(args) ==
    [location |-> OrString(args.location, DefaultLocation),
     gl |-> OrString(args.country, DefaultGl),
     hl |-> OrString(args.language, DefaultHl),
     num |-> OrNumber(args.maxResults, DefaultNum)]

\* {...a, ...b}: the properties of a, overridden and extended by those of b.
ObjectSpread(a, b) ==
    [k \in DOMAIN a \cup DOMAIN b |-> IF k \in DOMAIN b THEN b[k] ELSE a[k]]

\* searchParams of searchProducts and of searchProductsWithMetadata.
SearchParams(query, options) ==
    ObjectSpread([q |-> query,
                  gl |-> OrString(options.gl, DefaultGl),
                  hl |-> OrString(options.hl, DefaultHl),
                  location |-> OrString(options.location, DefaultLocation)],
                 options)

\* searchParams of googleShoppingSSearch: what axios.get sends.
AxiosParams(apiKey, params) ==
    ObjectSpread([engine |-> "google_shopping", api_key |-> apiKey], params)

\* An entry without an installment plan.
NoInstallment ==
    [down_payment |-> Undefined, cost_per_month |-> Undefined,
     months |-> NoNumber]

\* Product entries the upstream API can return (interface ShoppingResult):
\* one with the required fields only, one with every optional field.
ShoppingResults ==
    {[title |-> "Headphones A", seller |-> "Shop A", price |-> "$59.99",
      rating |-> NoNumber, reviews |-> NoNumber, delivery |-> Undefined,
      installment |-> NoInstallment,
      product_link |-> "https://shop.example/a", offers |-> "2"],
     [title |-> "Headphones B", seller |-> "Shop B", price |-> "$199.00",
      rating |-> 4, reviews |-> 120, delivery |-> "Free delivery",
      installment |-> [down_payment |-> "$0", cost_per_month |-> "$16.58",
                       months |-> 12],
      product_link |-> "https://shop.example/b", offers |-> "5"]}

\* response.data of the upstream API (interface SearchApiResponse); the
\* shopping_results property may be absent.
SearchApiResponses ==
    LET lists == UNION {[1..n -> ShoppingResults] : n \in 0..MaxProducts}
    IN  {[search_metadata |-> [id |-> "search-1", status |-> "Success"],
          has_shopping_results |-> TRUE, shopping_results |-> l] : l \in lists}
        \cup
        {[search_metadata |-> [id |-> "search-1", status |-> "Success"],
          has_shopping_results |-> FALSE, shopping_results |-> << >>]}

\* Array.prototype.join
RECURSIVE Join(_, _)
Join(ss, sep) ==
    IF Len(ss) = 0 THEN ""
    ELSE IF Len(ss) = 1 THEN ss[1]
    ELSE ss[1] \o sep \o Join(Tail(ss), sep)

\* A number that is present and not 0.
TruthyNumber(n) == n # NoNumber /\ n # 0

\* The lines of one entry of formatShoppingResults (index is 0-based).
FormatLines(result, index) ==
    <<ToString(index + 1) \o ". **" \o result.title \o "**",
      "   Seller: " \o result.seller,
      "   Price: " \o result.price>>
    \o (IF TruthyNumber(result.rating)
        THEN <<"   Rating: " \o ToString(result.rating) \o "/5 ("
               \o (IF TruthyNumber(result.reviews)
                   THEN ToString(result.reviews) ELSE "0")
               \o " reviews)">>
        ELSE << >>)
    \o (IF Truthy(result.delivery)
        THEN <<"   Delivery: " \o result.delivery>> ELSE << >>)
    \o (IF result.installment # NoInstallment
        THEN <<"   Installment: " \o result.installment.down_payment \o " + "
               \o result.installment.cost_per_month \o " for "
               \o ToString(result.installment.months) \o " months">>
        ELSE << >>)
    \o <<"   Product Link: " \o result.product_link,
         "   Offers: " \o result.offers \o " available">>

\* SearchApiService.formatShoppingResults
formatShoppingResults(results) ==
    IF Len(results) = 0 THEN "No shopping results found."
    ELSE Join([i \in 1..Len(results) |->
                  Join(FormatLines(results[i], i - 1), "\n")], "\n\n")

\* JSON.stringify(value, null, 2) on the values above: members in the order
\* of the object, absent members left out.  The indentation of the output is
\* not modelled.
JsonString(str) == "\"" \o str \o "\""

JsonMember(k, v) == JsonString(k) \o ": " \o v

JsonObject(members) == "{" \o Join(members, ", ") \o "}"

JsonResult(result) ==
    JsonObject(
        <<JsonMember("title", JsonString(result.title)),
          JsonMember("seller", JsonString(result.seller)),
          JsonMember("price", JsonString(result.price))>>
        \o (IF result.rating # NoNumber
            THEN <<JsonMember("rating", ToString(result.rating))>> ELSE << >>)
        \o (IF result.reviews # NoNumber
            THEN <<JsonMember("reviews", ToString(result.reviews))>>
            ELSE << >>)
        \o (IF result.delivery # Undefined
            THEN <<JsonMember("delivery", JsonString(result.delivery))>>
            ELSE << >>)
        \o (IF result.installment # NoInstallment
            THEN <<JsonMember("installment", JsonObject(
                     <<JsonMember("down_payment",
                                  JsonString(result.installment.down_payment)),
                       JsonMember("cost_per_month",
                                  JsonString(result.installment.cost_per_month)),
                       JsonMember("months",
                                  ToString(result.installment.months))>>))>>
            ELSE << >>)
        \o <<JsonMember("product_link", JsonString(result.product_link)),
             JsonMember("offers", JsonString(result.offers))>>)

\* JSON.stringify(results, null, 2)
JsonResults(results) ==
    "[" \o Join([i \in 1..Len(results) |-> JsonResult(results[i])], ", ")
        \o "]"

\* JSON.stringify(fullResponse, null, 2)
JsonResponse(data) ==
    JsonObject(
        <<JsonMember("search_metadata", JsonObject(
            <<JsonMember("id", JsonString(data.search_metadata.id)),
              JsonMember("status", JsonString(data.search_metadata.status))>>))>>
        \o (IF data.has_shopping_results
            THEN <<JsonMember("shopping_results",
                              JsonResults(data.shopping_results))>>
            ELSE << >>))

\* What axios.get can reject with: an HTTP error status with a message in
\* its body, one without, no response at all (timeout, connection refused),
\* a request that was never sent, and an error that is not axios's.
AxiosFailures ==
    {[isAxiosError |-> TRUE, hasResponse |-> TRUE, status |-> 401,
      statusText |-> "Unauthorized", dataMessage |-> "Invalid API key",
      hasRequest |-> TRUE, message |-> "Request failed with status code 401"],
     [isAxiosError |-> TRUE, hasResponse |-> TRUE, status |-> 500,
      statusText |-> "Internal Server Error", dataMessage |-> Undefined,
      hasRequest |-> TRUE, message |-> "Request failed with status code 500"],
     [isAxiosError |-> TRUE, hasResponse |-> FALSE, status |-> 0,
      statusText |-> Undefined, dataMessage |-> Undefined,
      hasRequest |-> TRUE, message |-> "timeout of 30000ms exceeded"],
     [isAxiosError |-> TRUE, hasResponse |-> FALSE, status |-> 0,
      statusText |-> Undefined, dataMessage |-> Undefined,
      hasRequest |-> FALSE, message |-> "Invalid URL"],
     [isAxiosError |-> FALSE, hasResponse |-> FALSE, status |-> 0,
      statusText |-> Undefined, dataMessage |-> Undefined,
      hasRequest |-> FALSE, message |-> "Unexpected token"]}

\* The message of the Error the catch block of googleShoppingSSearch throws:
\* this is the failure the search service hands to the tool handler.
ServiceErrorMessage(e) ==
    IF e.isAxiosError /\ e.hasResponse
    THEN "SearchAPI request failed with status " \o ToString(e.status) \o ": "
         \o OrString(e.dataMessage, e.statusText)
    ELSE IF e.isAxiosError /\ e.hasRequest
    THEN "SearchAPI request failed: No response received"
    ELSE "SearchAPI request failed: " \o e.message

\* A handler that reports the failure without its cause.
ToolErrorMessageGeneric(errorMessage) == "Google Shopping search failed"

\* The message of the Error the tool handler's catch block throws.
ToolErrorMessage(errorMessage) ==
    "Google Shopping search failed: " \o errorMessage

\* The handler has been called with validated arguments.
NewInvocation(args) ==
    [pc |-> "called", args |-> args, service |-> "-", params |-> << >>,
     calls |-> 0, upstream |-> "-", data |-> << >>,
     collaboratorMessage |-> "", content |-> << >>, message |-> ""]

gatewayVars ==
    <<transports, chans, reqs, nArrived, nServers, issued, lastHandler,
      removedIds, lastResponse, repeatedClose, proc>>

\* A listening gateway with no session, and one tool call with any arguments.
ToolInit ==
    /\ transports = << >>
    /\ chans = << >>
    /\ reqs = [r \in 1..MaxReqs |-> NewRequest]
    /\ nArrived = 0
    /\ nServers = 0
    /\ issued = 0
    /\ lastHandler = << >>
    /\ removedIds = {}
    /\ lastResponse = NewRequest
    /\ repeatedClose = FALSE
    /\ proc = [env |-> "sk-key", phase |-> "listening"]
    /\ invocation \in {NewInvocation(args) : args \in ToolArgs}

\* The tool handler up to its await: it builds searchOptions and calls
\* searchProductsWithMetadata or searchProducts, which builds searchParams and
\* calls googleShoppingSSearch, which calls axios.get.
ToolCall ==
    /\ invocation.pc = "called"
    /\ invocation' =
          [invocation EXCEPT
              !.pc = "awaiting",
              !.service = IF TruthyBool(invocation.args.includeMetadata)
                          THEN "searchProductsWithMetadata"
                          ELSE "searchProducts",
              !.params = AxiosParams(ConfigApiKey(proc.env),
                            SearchParams(Query,
                                         SearchOptions(invocation.args))),
              !.calls = @ + 1]
    /\ UNCHANGED gatewayVars

\* response.shopping_results || []
ResultsOf(data) ==
    IF data.has_shopping_results THEN data.shopping_results ELSE << >>

\* The text of the content block the handler returns.
ToolText(service, data) ==
    IF service = "searchProductsWithMetadata"
    THEN JsonResponse(data)
    ELSE JsonResults(ResultsOf(data))

\* axios.get resolves: the service returns and the handler returns its
\* content.
AxiosResolves ==
    /\ invocation.pc = "awaiting"
    /\ \E data \in SearchApiResponses :
          invocation' =
             [invocation EXCEPT
                 !.pc = "returned", !.upstream = "ok", !.data = data,
                 !.content = <<[type |-> "text",
                                text |-> ToolText(invocation.service, data)]>>]
    /\ UNCHANGED gatewayVars

\* axios.get rejects: the service's catch block throws, and the handler's
\* catch block throws in turn.
AxiosRejects ==
    /\ invocation.pc = "awaiting"
    /\ \E e \in AxiosFailures :
          invocation' =
             [invocation EXCEPT
                 !.pc = "threw", !.upstream = "failed",
                 !.collaboratorMessage = ServiceErrorMessage(e),
                 !.message = ToolErrorMessage(ServiceErrorMessage(e))]
    /\ UNCHANGED gatewayVars

ToolNext ==
    \/ ToolCall
    \/ AxiosResolves
    \/ AxiosRejects

ToolSpec == ToolInit /\ [][ToolNext]_vars

\* ------------------------------------------------------------------ claims

\* A step in which a request arrives, and that request as its handler leaves
\* it: suspended at its first await, or ended.
IsArrival == nArrived' = nArrived + 1

Arriving ==
    IF reqs'[nArrived'].pc = "done" THEN lastResponse' ELSE reqs'[nArrived']

Registered(t) == DOMAIN t

\* C1: a POST /mcp that carries a session id the registry holds is forwarded,
\* whatever its body, to the channel registered under that id, which is the
\* channel that handled the previous request for that id; the step constructs
\* no channel, creates no tool handler and leaves the registry as it was.
C1_SessionAffinity ==
    [][ (IsArrival /\ Arriving.method = "POST"
            /\ Arriving.header \in Registered(transports))
        => /\ Arriving.pc = "inChannel"
           /\ Arriving.branch = "resume"
           /\ Arriving.transport = transports[Arriving.header]
           /\ Arriving.transport = lastHandler[Arriving.header]
           /\ chans' = chans
           /\ nServers' = nServers
           /\ transports' = transports ]_vars

\* A resumed POST whose body is an initialization message is in its channel.
C1_Witness ==
    \E r \in 1..MaxReqs :
        /\ reqs[r].pc = "inChannel"
        /\ reqs[r].branch = "resume"
        /\ reqs[r].body = "initialize"
        /\ reqs[r].header \in Registered(transports)
        /\ transports[reqs[r].header] = reqs[r].transport

CreatedBy(r) == {c \in 1..Len(chans) : chans[c].createdBy = r}

\* C2: an initialization POST /mcp without a session id constructs exactly
\* one channel and one tool handler and registers nothing yet; when that
\* channel confirms its id the registry gains exactly one entry, the generated
\* id mapped to that channel; no request ever owns more than one channel.
C2_CreateRegistersOne ==
    [][ /\ (IsArrival /\ Arriving.method = "POST" /\ ~Truthy(Arriving.header)
               /\ isInitializeRequest(Arriving.body))
           => /\ Arriving.branch = "create"
              /\ Len(chans') = Len(chans) + 1
              /\ nServers' = nServers + 1
              /\ Arriving.transport = Len(chans')
              /\ chans'[Len(chans')].sessionId = Undefined
              /\ transports' = transports
        /\ \A c \in 1..Len(chans) :
              (chans[c].sessionId = Undefined /\ chans'[c].sessionId # Undefined)
              => /\ chans'[c].sessionId \notin Registered(transports)
                 /\ Registered(transports') =
                        Registered(transports) \cup {chans'[c].sessionId}
                 /\ transports'[chans'[c].sessionId] = c
                 /\ \A s \in Registered(transports) : transports'[s] = transports[s]
        /\ \A r \in 1..MaxReqs : Cardinality(CreatedBy(r)') <= 1
        /\ (lastResponse' # lastResponse /\ lastResponse'.branch = "create"
               /\ lastResponse'.status = 200)
           => /\ CreatedBy(lastResponse'.id) = {lastResponse'.transport}
              /\ chans[lastResponse'.transport].sessionId # Undefined ]_vars

\* A create request has been answered with success and its session is in the
\* registry under the id its channel generated.
C2_Witness ==
    /\ lastResponse.branch = "create"
    /\ lastResponse.status = 200
    /\ \E s \in Registered(transports) :
          /\ transports[s] = lastResponse.transport
          /\ chans[lastResponse.transport].sessionId = s

\* C3: a POST /mcp that carries no registered session id and is not an
\* initialization message without a session id is answered 400 with JSON-RPC
\* code -32000; no channel is constructed or forwarded to and the registry is
\* unchanged.
C3_RejectedPost ==
    [][ (IsArrival /\ Arriving.method = "POST"
            /\ Arriving.header \notin Registered(transports)
            /\ ~(~Truthy(Arriving.header) /\ isInitializeRequest(Arriving.body)))
        => /\ Arriving.pc = "done"
           /\ Arriving.status = 400
           /\ Arriving.code = -32000
           /\ Arriving.transport = NoTransport
           /\ chans' = chans
           /\ transports' = transports ]_vars

\* C4: a GET /mcp or DELETE /mcp whose session id is missing or not in the
\* registry is answered 400; no channel is touched and the registry is
\* unchanged.
C4_RejectedSessionRequest ==
    [][ (IsArrival /\ Arriving.method \in {"GET", "DELETE"}
            /\ Arriving.header \notin Registered(transports))
        => /\ Arriving.pc = "done"
           /\ Arriving.status = 400
           /\ Arriving.transport = NoTransport
           /\ chans' = chans
           /\ transports' = transports ]_vars

SessionOf(c) == chans[c].sessionId

\* A channel's session is live in table t when t maps the channel's id to it.
Live(t, c) == SessionOf(c) \in Registered(t) /\ t[SessionOf(c)] = c

C6_RegisteredOnlyOnceConfirmed ==
    [][ /\ \A s \in Registered(transports') :
              /\ Truthy(s)
              /\ transports'[s] \in 1..Len(chans')
              /\ chans'[transports'[s]].sessionId = s
        /\ \A s \in Registered(transports') \ Registered(transports) :
              /\ transports'[s] \in 1..Len(chans)
              /\ chans[transports'[s]].sessionId = Undefined ]_vars

\* A channel has confirmed its id and is registered under it while the create
\* request that made it is still being handled.
C6_Witness ==
    \E r \in 1..MaxReqs :
        /\ reqs[r].branch = "create" /\ reqs[r].pc = "inChannel"
        /\ Truthy(SessionOf(reqs[r].transport))
        /\ Live(transports, reqs[r].transport)

\* C7: every channel that confirms receives an id no channel received before,
\* live or terminated, so a registration adds a key the registry never held
\* and never replaces or moves an existing entry.
C7_FreshIds ==
    [][ /\ \A c1, c2 \in 1..Len(chans') :
              (c1 # c2 /\ chans'[c1].sessionId # Undefined)
              => chans'[c1].sessionId # chans'[c2].sessionId
        /\ \A s \in Registered(transports') \ Registered(transports) :
              /\ s \notin removedIds
              /\ \A c \in 1..Len(chans) : chans[c].sessionId # s
        /\ \A s \in Registered(transports') \cap Registered(transports) :
              transports'[s] = transports[s] ]_vars

\* Two initialization requests are in flight together and both channels have
\* confirmed an id.
C7_Witness ==
    \E r1, r2 \in 1..MaxReqs :
        /\ r1 # r2
        /\ reqs[r1].branch = "create" /\ reqs[r1].pc = "inChannel"
        /\ reqs[r2].branch = "create" /\ reqs[r2].pc = "inChannel"
        /\ Truthy(SessionOf(reqs[r1].transport))
        /\ Truthy(SessionOf(reqs[r2].transport))

\* The step is a run of channel c's onclose.
IsOnClose(c) == chans[c].pendingClose /\ ~chans'[c].pendingClose

\* C8: a run of onclose for a channel whose id is no longer (or not yet) in
\* the registry leaves the registry as it is, and any run of onclose leaves
\* every other session's entry in place.
C8_RemovalIdempotent ==
    [][ \A c \in 1..Len(chans) :
          IsOnClose(c)
          => /\ SessionOf(c) \notin Registered(transports)
                => transports' = transports
             /\ SessionOf(c) \in removedIds => transports' = transports
             /\ \A s \in Registered(transports) \ {SessionOf(c)} :
                   s \in Registered(transports') /\ transports'[s] = transports[s]
             /\ Registered(transports') \subseteq Registered(transports) ]_vars

\* onclose has run twice for a channel that had a session, while another
\* session is still registered.
C8_Witness ==
    \E c \in 1..Len(chans) :
        /\ repeatedClose
        /\ SessionOf(c) \in removedIds
        /\ \E s \in Registered(transports) : transports[s] # c

\* C9: an id whose channel's close notification has been processed is absent
\* from the registry from then on, and every POST, GET or DELETE that arrives
\* carrying it is answered 400 without being forwarded to any channel.
C9_ClosedIdUnknown ==
    [][ /\ removedIds' \cap Registered(transports') = {}
        /\ (IsArrival /\ Arriving.header \in removedIds)
           => /\ Arriving.pc = "done"
              /\ Arriving.status = 400
              /\ Arriving.branch = "reject"
              /\ Arriving.transport = NoTransport ]_vars

\* A request carrying the id of a closed channel has been rejected.
C9_Witness ==
    /\ lastResponse.branch = "reject"
    /\ lastResponse.status = 400
    /\ lastResponse.header \in removedIds

\* C10: a DELETE /mcp for a registered session is forwarded to that session's
\* channel and leaves the registry as it is; the registry loses an entry only
\* in a run of that channel's onclose; and once the channel has fired its
\* close, the session is eventually gone from the registry.
C10_TerminationRemoves ==
    /\ [][ /\ (IsArrival /\ Arriving.method = "DELETE"
                  /\ Arriving.header \in Registered(transports))
              => /\ Arriving.pc = "inChannel"
                 /\ Arriving.transport = transports[Arriving.header]
                 /\ transports' = transports
           /\ \A s \in Registered(transports) \ Registered(transports') :
                 IsOnClose(transports[s]) ]_vars
    /\ \A c \in 1..MaxChans :
          (c <= Len(chans) /\ chans[c].pendingClose /\ Live(transports, c))
          ~> (c <= Len(chans) /\ ~Live(transports, c))

\* A DELETE is in its channel, the channel's close has been processed and the
\* session is gone from the registry.
C10_Witness ==
    \E r \in 1..MaxReqs :
        /\ reqs[r].method = "DELETE" /\ reqs[r].pc = "inChannel"
        /\ ~chans[reqs[r].transport].pendingClose
        /\ SessionOf(reqs[r].transport) \in removedIds
        /\ ~Live(transports, reqs[r].transport)

\* C11: when the catch block of POST /mcp has run for a request (the error is
\* logged), the response is the gateway's 500 with JSON-RPC code -32603 if
\* and only if the channel had not begun a response; if the channel had begun
\* one, the response stays the channel's and the error is only logged.  No
\* request, in flight or ended, has more than one response written.
C11_CatchWritesOnce ==
    /\ \A r \in 1..MaxReqs : reqs[r].writes <= 1
    /\ lastResponse.writes <= 1
    /\ lastResponse.code = -32603 =>
          /\ lastResponse.method = "POST"
          /\ lastResponse.logged
          /\ lastResponse.status = 500
          /\ lastResponse.channelStatus = NoStatus
    /\ (lastResponse.method = "POST" /\ lastResponse.logged) =>
          /\ lastResponse.writes = 1
          /\ IF lastResponse.channelStatus = NoStatus
             THEN lastResponse.status = 500 /\ lastResponse.code = -32603
             ELSE /\ lastResponse.status = lastResponse.channelStatus
                  /\ lastResponse.code = NoCode

\* A forwarded POST whose channel began a 200 response and then failed: the
\* catch block ran and the response is still the channel's.
C11_Witness ==
    /\ lastResponse.method = "POST"
    /\ lastResponse.logged
    /\ lastResponse.channelStatus = 200
    /\ lastResponse.status = 200
    /\ lastResponse.transport # NoTransport

\* C12: no handler that forwarded its request to a channel ends with its
\* failure uncaught: an exception the channel raises while it handles a
\* forwarded POST, GET or DELETE is caught inside the gateway; and the process
\* ends only on a startup-configuration error.
C12_NoEscape ==
    /\ lastResponse.transport # NoTransport => lastResponse.pc # "escaped"
    /\ proc.phase = "exited" => ApiKeyMissing(ConfigApiKey(proc.env))

\* C13: a tool call whose search service failed made exactly one call of the
\* service, threw a tool-level error whose message is the fixed prefix
\* followed by the service failure's message unchanged, and returned no
\* content; a call that is over made one call, whatever its outcome.
C13_FailureSurfacesOnce ==
    /\ invocation.pc \in {"awaiting", "returned", "threw"} =>
          invocation.calls = 1
    /\ invocation.upstream = "failed" =>
          /\ invocation.pc = "threw"
          /\ invocation.content = << >>
          /\ invocation.message =
                "Google Shopping search failed: "
                    \o invocation.collaboratorMessage
          /\ invocation.collaboratorMessage # ""
    /\ invocation.pc = "threw" => invocation.upstream = "failed"

\* The upstream API did not answer (timeout): the call has thrown.
C13_Witness ==
    /\ invocation.pc = "threw"
    /\ invocation.collaboratorMessage =
          "SearchAPI request failed: No response received"
    /\ invocation.calls = 1

\* C15: a tool call that succeeded returned exactly one content block, of
\* type text, whose text is the serialized full response when
\* include-metadata was set and the formatted product list otherwise.
C15_FormattedOrRaw ==
    invocation.pc = "returned" =>
        /\ Len(invocation.content) = 1
        /\ invocation.content[1].type = "text"
        /\ invocation.content[1].text =
              IF TruthyBool(invocation.args.includeMetadata)
              THEN JsonResponse(invocation.data)
              ELSE formatShoppingResults(ResultsOf(invocation.data))

\* C16: the outbound search request carries, for each of location, country
\* code, language code and result count, the caller's value when one was
\* supplied and the default exactly when it was omitted.
C16_ExplicitOverridesDefault ==
    invocation.pc \in {"awaiting", "returned", "threw"} =>
        /\ invocation.params.location =
              IF invocation.args.location # Undefined
              THEN invocation.args.location ELSE "United States"
        /\ invocation.params.gl =
              IF invocation.args.country # Undefined
              THEN invocation.args.country ELSE "us"
        /\ invocation.params.hl =
              IF invocation.args.language # Undefined
              THEN invocation.args.language ELSE "en"
        /\ invocation.params.num =
              IF invocation.args.maxResults # NoNumber
              THEN invocation.args.maxResults ELSE 10

\* C14: the step in which a tool call on a registered session ends in a
\* tool-level error leaves the registry and the channels unchanged; the
\* session is still registered, and a POST carrying its id, whatever its body,
\* is classified as resume and finds the same channel.
C14_FailedCallKeepsSession ==
    [][(lastResponse' # lastResponse /\ lastResponse'.tool = "failed") =>
         LET c == lastResponse'.transport
         IN  /\ transports' = transports
             /\ chans' = chans
             /\ Live(transports, c) =>
                   /\ SessionOf(c) \in Registered(transports')
                   /\ \A b \in Bodies :
                         /\ Classify(SessionOf(c), b, transports') = "resume"
                         /\ Lookup(transports', SessionOf(c)) =
                               [kind |-> "transport", c |-> c]
                   /\ ~SessionRequestInvalid(SessionOf(c), transports')]_vars

\* A tool call on a registered session has just ended in a tool-level error.
C14_Witness ==
    /\ lastResponse.tool = "failed"
    /\ lastResponse.status = 200
    /\ lastResponse.transport # NoTransport
    /\ Live(transports, lastResponse.transport)

\* C17: while the environment gives no API key (the variable is unset or
\* empty), the process is starting or has exited: it is never listening, no
\* request has been accepted, no channel constructed and no session
\* registered.
C17_NoListenWithoutKey ==
    proc.env \in {Undefined, ""} =>
        /\ proc.phase \in {"starting", "exited"}
        /\ nArrived = 0
        /\ chans = << >>
        /\ Registered(transports) = {}

\* The process was started without an API key and has exited.
C17_Witness == proc.env = Undefined /\ proc.phase = "exited"

\* C18: while the server listens a GET /health can be handled in every
\* state, and the step that handles it answers 200 with the body
\* {status: 'ok', service: 'mcp-searchapi-server'}, written once, and leaves
\* the registry, the channels and every other handler as they were.
C18_HealthFixed ==
    /\ [](proc.phase = "listening" => ENABLED GetHealth)
    /\ [][(lastResponse' # lastResponse
              /\ lastResponse'.method = "GET /health") =>
            /\ lastResponse'.pc = "done"
            /\ lastResponse'.status = 200
            /\ lastResponse'.resBody =
                  [status |-> "ok", service |-> "mcp-searchapi-server"]
            /\ lastResponse'.code = NoCode
            /\ lastResponse'.writes = 1
            /\ transports' = transports
            /\ chans' = chans
            /\ reqs' = reqs]_vars

\* A health probe answered while one session is registered and another has
\* been removed after its channel closed.
C18_Witness ==
    /\ lastResponse.method = "GET /health"
    /\ lastResponse.status = 200
    /\ Registered(transports) # {}
    /\ removedIds # {}

\* C19: an entry leaves the registry only in a step in which onclose runs for
\* the channel stored under it; so every channel that has confirmed an id and
\* whose close notification has not been processed is in the registry under
\* that id, whatever requests and errors there have been.
C19_RemovedOnlyOnClose ==
    /\ [](\A c \in 1..Len(chans) :
            (Truthy(SessionOf(c)) /\ SessionOf(c) \notin removedIds)
                => Live(transports, c))
    /\ [][\A s \in Registered(transports) \ Registered(transports') :
            /\ IsOnClose(transports[s])
            /\ SessionOf(transports[s]) = s
            /\ reqs' = reqs
            /\ lastResponse' = lastResponse]_vars

\* A DELETE forwarded to a registered session has failed without being
\* caught; no close notification has run and the entry is in place.
C19_Witness ==
    /\ lastResponse.method = "DELETE"
    /\ lastResponse.pc = "escaped"
    /\ lastResponse.transport # NoTransport
    /\ Live(transports, lastResponse.transport)
    /\ removedIds = {}

\* C20: every registry key is the session id of the channel stored under it,
\* and no channel is stored under two keys.
C20_KeyIsOwnId ==
    /\ \A s \in Registered(transports) :
          /\ transports[s] \in 1..Len(chans)
          /\ SessionOf(transports[s]) = s
    /\ \A s1, s2 \in Registered(transports) :
          transports[s1] = transports[s2] => s1 = s2

\* Two sessions are registered, each under its own id on its own channel.
C20_Witness ==
    \E s1, s2 \in Registered(transports) :
        /\ s1 # s2
        /\ transports[s1] # transports[s2]
        /\ SessionOf(transports[s1]) = s1
        /\ SessionOf(transports[s2]) = s2

\* C21: when onclose runs for a registered channel while a handler that
\* holds it is still awaiting it, the session leaves the registry in that
\* step and every other entry stays; and when a handler whose channel's
\* session has been removed ends, by completion, tool-level error or failure,
\* the registry is unchanged and the removed id is not in it.
C21_CloseWhileInFlight ==
    [][\A r \in 1..MaxReqs :
          LET c == reqs[r].transport
          IN  reqs[r].pc = "inChannel" =>
                /\ (IsOnClose(c) /\ Live(transports, c)) =>
                      /\ SessionOf(c) \notin Registered(transports')
                      /\ \A s \in Registered(transports) \ {SessionOf(c)} :
                            /\ s \in Registered(transports')
                            /\ transports'[s] = transports[s]
                      /\ reqs'[r] = reqs[r]
                /\ (reqs'[r].pc # "inChannel"
                       /\ SessionOf(c) \in removedIds) =>
                      /\ transports' = transports
                      /\ SessionOf(c) \notin Registered(transports')
                      /\ chans' = chans]_vars

\* A tools/call request resumed on a session is still awaiting the channel,
\* and the session has been removed by the channel's close in the meantime.
C21_Witness ==
    \E r \in 1..MaxReqs :
        /\ reqs[r].pc = "inChannel"
        /\ reqs[r].branch = "resume"
        /\ reqs[r].body = "tools/call"
        /\ reqs[r].header = SessionOf(reqs[r].transport)
        /\ reqs[r].header \in removedIds
        /\ reqs[r].header \notin Registered(transports)

\* The create handler of request r moves in this step: it arrives, its
\* connect resolves, or it ends.
CreateMoves(r) ==
    /\ reqs'[r] # reqs[r]
    /\ \/ reqs'[r].branch = "create"
       \/ reqs[r].branch = "create"

\* The channel request r holds, as the handler's step leaves it.
HeldChannel(r) ==
    IF reqs[r].transport # NoTransport THEN reqs[r].transport
    ELSE reqs'[r].transport

\* C22: no channel without a confirmed session id is stored in the registry,
\* and every step of a create handler whose channel has not confirmed,
\* including the step in which connect or the channel fails and the catch
\* block answers, leaves the registry exactly as it was.
C22_FailedCreateLeavesRegistry ==
    /\ [](\A c \in 1..Len(chans) :
            SessionOf(c) = Undefined =>
                \A s \in Registered(transports) : transports[s] # c)
    /\ [][\A r \in 1..MaxReqs :
            (CreateMoves(r) /\ chans'[HeldChannel(r)].sessionId = Undefined)
                => transports' = transports]_vars

\* A create request has ended with the catch block's 500, its channel never
\* confirmed an id, and the registry holds only the earlier session.
C22_Witness ==
    /\ lastResponse.branch = "create"
    /\ lastResponse.status = 500
    /\ lastResponse.logged
    /\ SessionOf(lastResponse.transport) = Undefined
    /\ Cardinality(Registered(transports)) = 1
    /\ \A s \in Registered(transports) :
          transports[s] # lastResponse.transport

====
